---- MODULE Spec2Model ----
(***************************************************************************)
(* State-machine model of the DataTable component                          *)
(* (src/src/components/DataTable/DataTable.test.tsx, lines 243-746): the   *)
(* sort state and its header-click transition, the comparator and the sort *)
(* of the rows, the pagination slice, the selection set and the lists      *)
(* handed to onRowSelect, and the Previous/Next page controls.             *)
(***************************************************************************)
EXTENDS Integers, Sequences, FiniteSets, TLC

VARIABLES
    data,          \* prop data: the caller's row sequence
    loading,       \* prop loading
    pagination,    \* prop pagination
    pageSize,      \* prop pageSize
    hasOnRowSelect,\* whether the prop onRowSelect is supplied
    selectedRows,  \* useState: Set of row keys
    sortState,     \* useState: {column, direction}
    currentPage,   \* useState: 1-based page number
    emitted,       \* the argument lists of the onRowSelect calls made by the last handler
    lastEvent,     \* the DOM event (or caller re-render) handled last
    clicks,        \* consecutive clicks on one sortable header, counted from the unsorted state
    columns,       \* prop columns: the caller's column definitions
    app,           \* the useState values of App and the timers of its pending delays
    field          \* the props of an InputField: id, helperText, errorMessage, invalid, loading, disabled

vars == <<data, loading, pagination, pageSize, hasOnRowSelect, selectedRows,
          sortState, currentPage, emitted, lastEvent, clicks, columns, app, field>>

(***************************************************************************)
(* Bounds                                                                  *)
(***************************************************************************)
MaxUsers == 3        \* rows of the largest dataset the caller passes (Spec)
MaxPageSize == 2     \* largest pageSize the caller passes (Spec)
MaxRows == 3          \* longest row sequence handed to the sort (SortSpec)
MaxAdded == 2         \* most rows added to initialUsers (AppSpec)
MaxPending == 2       \* most timers of one kind pending at a time (AppSpec)

(***************************************************************************)
(* JavaScript values of a row field: null, undefined, numbers, strings.    *)
(* A string is the sequence of its characters.                             *)
(***************************************************************************)
\* null in the direction of the sort state, whose other values are 'asc' and
\* 'desc'
Null == "null"

\* a value that is a string or null (sortState.column, the column of an
\* event): the string k is Key(k) and null is NoKey, which is no Key(k)
Key(k) == <<k>>
NoKey == <<>>

NullValue == [t |-> "null", n |-> 0, s |-> <<>>]
Undefined == [t |-> "undefined", n |-> 0, s |-> <<>>]
Num(k) == [t |-> "number", n |-> k, s |-> <<>>]
Str(chars) == [t |-> "string", n |-> 0, s |-> chars]

\* a == null  (true of null and of undefined)
IsNullish(v) == v.t \in {"null", "undefined"}

\* collation order of the characters used: punctuation before digits before
\* letters
Punctuation == <<".", "@">>

Digits == <<"0", "1", "2", "3", "4", "5", "6", "7", "8", "9">>

Alphabet == Punctuation \o <<"0", "1", "2", "3", "4", "5", "6", "7", "8", "9",
              "a", "b", "c", "d", "e", "f", "g", "h", "i", "j", "k", "l", "m",
              "n", "o", "p", "q", "r", "s", "t", "u", "v", "w", "x", "y", "z">>

CharRank(c) == CHOOSE i \in 1..Len(Alphabet) : Alphabet[i] = c

\* String.prototype.localeCompare on strings of these characters
RECURSIVE LocaleCompare(_, _)
LocaleCompare(x, y) ==
    IF x = <<>> /\ y = <<>> THEN 0
    ELSE IF x = <<>> THEN -1
    ELSE IF y = <<>> THEN 1
    ELSE IF CharRank(Head(x)) < CharRank(Head(y)) THEN -1
    ELSE IF CharRank(Head(x)) > CharRank(Head(y)) THEN 1
    ELSE LocaleCompare(Tail(x), Tail(y))

\* String(n) for a natural number n
RECURSIVE NumberToString(_)
NumberToString(k) ==
    IF k < 10 THEN <<Digits[k + 1]>>
    ELSE NumberToString(k \div 10) \o <<Digits[(k % 10) + 1]>>

\* String(v) for a non-null value
ToStr(v) == IF v.t = "number" THEN NumberToString(v.n) ELSE v.s

(***************************************************************************)
(* Props: the column definitions and the datasets the caller passes        *)
(***************************************************************************)
mockColumns ==
    << [key |-> "name", dataIndex |-> "name", sortable |-> TRUE],
       [key |-> "email", dataIndex |-> "email", sortable |-> TRUE],
       [key |-> "age", dataIndex |-> "age", sortable |-> TRUE],
       [key |-> "active", dataIndex |-> "active"] >>

\* columns that cannot be sorted: a false flag, and no flag
nonSortableColumns ==
    << [key |-> "name", dataIndex |-> "name", sortable |-> FALSE],
       [key |-> "email", dataIndex |-> "email"] >>

\* a key is any string: columns keyed by the empty string and by 'null'
stringKeyColumns ==
    << [key |-> "", dataIndex |-> "age", sortable |-> TRUE],
       [key |-> "null", dataIndex |-> "age", sortable |-> TRUE] >>

\* the column lists the caller passes: all of them, without the age column,
\* the ones that cannot be sorted, or the ones keyed '' and 'null'
ColumnProps == {mockColumns, SelectSeq(mockColumns, LAMBDA c : c.key # "age"),
                nonSortableColumns, stringKeyColumns}

ColumnKeys == {columns[i].key : i \in 1..Len(columns)}

\* columns.find(col => col.key === k): the first column of that key
ColumnOfKey(k) ==
    columns[CHOOSE i \in 1..Len(columns) :
                columns[i].key = k /\ \A j \in 1..(i - 1) : columns[j].key # k]

\* !column.sortable is true of an unset flag and of false
Sortable(column) == "sortable" \in DOMAIN column /\ column.sortable

\* record[field]: undefined when the record has no such field
Field(record, f) == IF f \in DOMAIN record THEN record[f] ELSE Undefined

UserNames == << <<"a", "l">>, <<"b", "o">>, <<"c", "a">>, <<"d", "a">>, <<"e", "r">> >>
UserAges == << Num(28), Num(32), Num(24), Num(28), NullValue >>

\* the address of a user: the name, then @e.c
User(i) == [id |-> i,
            name |-> Str(UserNames[((i - 1) % Len(UserNames)) + 1]),
            email |-> Str(UserNames[((i - 1) % Len(UserNames)) + 1]
                          \o <<"@", "e", ".", "c">>),
            age |-> UserAges[((i - 1) % Len(UserAges)) + 1]]

mockUsers(k) == [i \in 1..k |-> User(i)]

Datasets == {mockUsers(k) : k \in 0..MaxUsers}

(***************************************************************************)
(* getRowKey (rowKey is the default 'id'; NoId stands for a row without    *)
(* an id field, whose key is then its index in the array it is read from)  *)
(***************************************************************************)
NoId == -1

getRowKey(record, index) == IF record.id # NoId THEN record.id ELSE index

(***************************************************************************)
(* sortedData: the comparator handed to Array.prototype.sort               *)
(***************************************************************************)
comparator(aValue, bValue, direction) ==
    IF aValue = bValue THEN 0
    ELSE IF IsNullish(aValue) THEN (IF direction = "asc" THEN -1 ELSE 1)
    ELSE IF IsNullish(bValue) THEN (IF direction = "asc" THEN 1 ELSE -1)
    ELSE LET comparison ==
                 IF aValue.t = "string" /\ bValue.t = "string"
                   THEN LocaleCompare(aValue.s, bValue.s)
                 ELSE IF aValue.t = "number" /\ bValue.t = "number"
                   THEN aValue.n - bValue.n
                 ELSE LocaleCompare(ToStr(aValue), ToStr(bValue))
         IN  IF direction = "asc" THEN comparison ELSE -comparison

\* (a, b) => ... of line 327, on two rows
compareRows(a, b, dataIndex, direction) ==
    comparator(Field(a, dataIndex), Field(b, dataIndex), direction)

(***************************************************************************)
(* Array.prototype.sort as the engine runs it on an array shorter than 64  *)
(* elements: the leading run is found (a strictly descending one is        *)
(* reversed), then the rest is inserted by binary search.                  *)
(***************************************************************************)
Reverse(seq) == [i \in 1..Len(seq) |-> seq[Len(seq) + 1 - i]]

\* length of the leading run of arr (Len(arr) >= 2), idx the next 1-based position
RECURSIVE RunLength(_, _, _, _, _)
RunLength(arr, idx, isDescending, dataIndex, direction) ==
    IF idx > Len(arr) THEN idx - 1
    ELSE LET order == compareRows(arr[idx], arr[idx - 1], dataIndex, direction)
         IN  IF (isDescending /\ order >= 0) \/ (~isDescending /\ order < 0)
               THEN idx - 1
               ELSE RunLength(arr, idx + 1, isDescending, dataIndex, direction)

\* the 0-based position at which pivot goes into the sorted prefix arr[left..right)
RECURSIVE BinarySearch(_, _, _, _, _, _)
BinarySearch(arr, pivot, left, right, dataIndex, direction) ==
    IF left >= right THEN left
    ELSE LET mid == left + ((right - left) \div 2)
             order == compareRows(pivot, arr[mid + 1], dataIndex, direction)
         IN  IF order < 0
               THEN BinarySearch(arr, pivot, left, mid, dataIndex, direction)
               ELSE BinarySearch(arr, pivot, mid + 1, right, dataIndex, direction)

\* arr[0..start) is sorted; insert arr[start], arr[start+1], ... in turn
RECURSIVE BinaryInsertionSort(_, _, _, _)
BinaryInsertionSort(arr, start, dataIndex, direction) ==
    IF start >= Len(arr) THEN arr
    ELSE LET pivot == arr[start + 1]
             left == BinarySearch(arr, pivot, 0, start, dataIndex, direction)
             moved == [p \in 1..Len(arr) |->
                          IF p <= left THEN arr[p]
                          ELSE IF p = left + 1 THEN pivot
                          ELSE IF p <= start + 1 THEN arr[p - 1]
                          ELSE arr[p]]
         IN  BinaryInsertionSort(moved, start + 1, dataIndex, direction)

ArraySort(arr, dataIndex, direction) ==
    IF Len(arr) < 2 THEN arr
    ELSE LET isDescending == compareRows(arr[2], arr[1], dataIndex, direction) < 0
             runLength == RunLength(arr, 3, isDescending, dataIndex, direction)
             run == IF isDescending
                      THEN Reverse(SubSeq(arr, 1, runLength)) \o SubSeq(arr, runLength + 1, Len(arr))
                      ELSE arr
         IN  BinaryInsertionSort(run, runLength, dataIndex, direction)

sortedDataOfDroppingUnknown(rows, state) ==
    IF state.column \in {NoKey, Key("")} \/ state.direction = Null THEN rows
    ELSE IF state.column[1] \notin ColumnKeys THEN <<>>
    ELSE ArraySort(rows, ColumnOfKey(state.column[1]).dataIndex, state.direction)

\* useMemo of lines 319-346, as a function of the props and the sort state;
\* !sortState.column is true of null and of the empty string
sortedDataOf(rows, state) ==
    IF state.column \in {NoKey, Key("")} \/ state.direction = Null THEN rows
    ELSE IF state.column[1] \notin ColumnKeys THEN rows
    ELSE ArraySort(rows, ColumnOfKey(state.column[1]).dataIndex, state.direction)

sortedData == sortedDataOf(data, sortState)

(***************************************************************************)
(* paginatedData and totalPages                                            *)
(***************************************************************************)
Min(a, b) == IF a < b THEN a ELSE b
Max(a, b) == IF a > b THEN a ELSE b

\* Array.prototype.slice(start, end)
Slice(arr, start, end) ==
    LET len == Len(arr)
        k == IF start < 0 THEN Max(len + start, 0) ELSE Min(start, len)
        final == IF end < 0 THEN Max(len + end, 0) ELSE Min(end, len)
    IN  IF final <= k THEN <<>> ELSE SubSeq(arr, k + 1, final)

paginatedDataNoOffset(rows, paged, page, size) ==
    IF ~paged THEN rows
    ELSE LET start == (page - 1) * size IN Slice(rows, start, size)

paginatedDataOf(rows, paged, page, size) ==
    IF ~paged THEN rows
    ELSE LET start == (page - 1) * size IN Slice(rows, start, start + size)

paginatedData == paginatedDataOf(sortedData, pagination, currentPage, pageSize)

\* Math.ceil(n / d) for n >= 0, d >= 1
MathCeilDiv(n, d) == (n + d - 1) \div d

totalPages == MathCeilDiv(Len(sortedData), pageSize)

(***************************************************************************)
(* handleSort                                                              *)
(***************************************************************************)
Unsorted == [column |-> NoKey, direction |-> Null]

handleSortNoGuard(prev, column) ==
    IF prev.column = Key(column.key)
      THEN LET newDirection == IF prev.direction = "asc" THEN "desc"
                               ELSE IF prev.direction = "desc" THEN Null ELSE "asc"
           IN  [column |-> IF newDirection # Null THEN Key(column.key) ELSE NoKey,
                direction |-> newDirection]
      ELSE [column |-> Key(column.key), direction |-> "asc"]

handleSortTwoCycle(prev, column) ==
    IF ~Sortable(column) THEN prev
    ELSE IF prev.column = Key(column.key)
      THEN [column |-> Key(column.key),
            direction |-> IF prev.direction = "asc" THEN "desc" ELSE "asc"]
      ELSE [column |-> Key(column.key), direction |-> "asc"]

handleSortKeepDirection(prev, column) ==
    IF ~Sortable(column) THEN prev
    ELSE IF prev.column = Key(column.key)
      THEN LET newDirection == IF prev.direction = "asc" THEN "desc"
                               ELSE IF prev.direction = "desc" THEN Null ELSE "asc"
           IN  [column |-> IF newDirection # Null THEN Key(column.key) ELSE NoKey,
                direction |-> newDirection]
      ELSE [column |-> Key(column.key),
            direction |-> IF prev.direction # Null THEN prev.direction ELSE "asc"]

handleSortKeepColumn(prev, column) ==
    IF ~Sortable(column) THEN prev
    ELSE IF prev.column = Key(column.key)
      THEN [column |-> Key(column.key),
            direction |-> IF prev.direction = "asc" THEN "desc"
                          ELSE IF prev.direction = "desc" THEN Null ELSE "asc"]
      ELSE [column |-> Key(column.key), direction |-> "asc"]

\* the sort state after handleSort(column) from the sort state prev
handleSort(prev, column) ==
    IF ~Sortable(column) THEN prev
    ELSE IF prev.column = Key(column.key)
      THEN LET newDirection == IF prev.direction = "asc" THEN "desc"
                               ELSE IF prev.direction = "desc" THEN Null ELSE "asc"
           IN  [column |-> IF newDirection # Null THEN Key(column.key) ELSE NoKey,
                direction |-> newDirection]
      ELSE [column |-> Key(column.key), direction |-> "asc"]

(***************************************************************************)
(* handleRowSelect and handleSelectAll                                     *)
(***************************************************************************)
selectable == TRUE

\* rows.filter((record, index) => keys.has(getRowKey(record, index)))
RECURSIVE FilterFrom(_, _, _)
FilterFrom(rows, keys, i) ==
    IF i > Len(rows) THEN <<>>
    ELSE (IF getRowKey(rows[i], i - 1) \in keys THEN <<rows[i]>> ELSE <<>>)
         \o FilterFrom(rows, keys, i + 1)

\* newSelected of handleRowSelect(rowKey, selected)
handleRowSelectSet(rowKey, selected) ==
    IF selected THEN selectedRows \cup {rowKey} ELSE selectedRows \ {rowKey}

handleRowSelectEmitStale(newSelected) == FilterFrom(data, selectedRows, 1)

\* selectedData of handleRowSelect: the list passed to onRowSelect
handleRowSelectEmit(newSelected) == FilterFrom(data, newSelected, 1)

KeysOf(rows) == {getRowKey(rows[i], i - 1) : i \in 1..Len(rows)}

handleSelectAllSetAdding(selected) ==
    IF selected THEN selectedRows \cup KeysOf(paginatedData) ELSE {}

\* newSelected of handleSelectAll(selected)
handleSelectAllSet(selected) ==
    IF selected THEN KeysOf(paginatedData) ELSE {}

handleSelectAllEmitWholeData(selected) == IF selected THEN sortedData ELSE <<>>

\* selectedData of handleSelectAll: the list passed to onRowSelect
handleSelectAllEmit(selected) == IF selected THEN paginatedData ELSE <<>>

isAllSelectedWholeData ==
    Len(sortedData) > 0
    /\ \A i \in 1..Len(sortedData) : getRowKey(sortedData[i], i - 1) \in selectedRows

isAllSelected ==
    Len(paginatedData) > 0
    /\ \A i \in 1..Len(paginatedData) : getRowKey(paginatedData[i], i - 1) \in selectedRows

isIndeterminateSome ==
    \E i \in 1..Len(paginatedData) : getRowKey(paginatedData[i], i - 1) \in selectedRows

isIndeterminate ==
    ~isAllSelected
    /\ \E i \in 1..Len(paginatedData) : getRowKey(paginatedData[i], i - 1) \in selectedRows

(***************************************************************************)
(* Previous / Next                                                         *)
(***************************************************************************)
previousPage(prev) == Max(1, prev - 1)

nextPageNoCeiling(prev, pages) == prev + 1

nextPage(prev, pages) == Min(pages, prev + 1)

displayModeEmptyFirst ==
    IF Len(data) = 0 THEN "Empty" ELSE IF loading THEN "Loading" ELSE "Populated"

\* which of the three returns of the component renders
displayMode == IF loading THEN "Loading" ELSE IF Len(data) = 0 THEN "Empty" ELSE "Populated"

\* the aria-sort attribute of a column header ("" when the attribute is
\* absent): the header cells of the loading skeleton carry no aria-sort
ariaSort(column) ==
    IF displayMode = "Loading" THEN ""
    ELSE IF sortState.column = Key(column.key)
      THEN (IF sortState.direction = "asc" THEN "ascending" ELSE "descending")
    ELSE IF Sortable(column) THEN "none"
    ELSE ""

footerShown == displayMode = "Populated" /\ pagination /\ totalPages > 1

\* the column titles in the rendered header row (the loading skeleton has none)
renderedTitles ==
    IF displayMode = "Loading" THEN <<>> ELSE [i \in 1..Len(columns) |-> columns[i].key]

\* the data rows in the rendered body
renderedRows == IF displayMode = "Populated" THEN paginatedData ELSE <<>>

\* the 'Loading...' overlay and the 'No data' block with emptyText
loadingShown == displayMode = "Loading"
emptyTextShown == displayMode = "Empty"

\* the numbers of 'Showing X to Y of Z results' and of 'Page P of N'
showingFrom == (currentPage - 1) * pageSize + 1

showingToNoMin == currentPage * pageSize

showingTo == Min(currentPage * pageSize, Len(sortedData))
showingOf == Len(sortedData)
pageLabel == <<currentPage, totalPages>>

(***************************************************************************)
(* InputField (src/unnamed/part_000): the ids, aria-describedby and the     *)
(* message paragraph, as functions of the props                            *)
(***************************************************************************)
\* a prop used as a condition: an absent or empty string is falsy
Truthy(v) == v.t = "string" /\ v.s # <<>>

generatedId == <<"r", "0">>

\* id ?? `input-${generatedId}`
inputId == IF IsNullish(field.id) THEN <<"i", "n", "p", "u", "t", "-">> \o generatedId
           ELSE field.id.s

helperId == IF Truthy(field.helperText) THEN Str(inputId \o <<"-", "h", "e", "l", "p", "e", "r">>)
            ELSE Undefined

errorId == IF Truthy(field.errorMessage) THEN Str(inputId \o <<"-", "e", "r", "r", "o", "r">>)
           ELSE Undefined

\* the ids joined into aria-describedby, in order (<<>>: the attribute is absent)
ariaDescribedBy ==
    (IF Truthy(errorId) THEN <<errorId.s>> ELSE <<>>)
    \o (IF Truthy(helperId) THEN <<helperId.s>> ELSE <<>>)

\* the paragraphs rendered under the input, each with its id and its text
renderedMessages ==
    IF Truthy(field.errorMessage)
      THEN <<[id |-> errorId, text |-> field.errorMessage]>>
    ELSE IF Truthy(field.helperText)
      THEN <<[id |-> helperId, text |-> field.helperText]>>
    ELSE <<>>

\* aria-invalid={invalid || undefined}, aria-busy={loading || undefined}
ariaInvalid == field.invalid
ariaBusy == field.loading

OptionalTexts(text) == {Undefined, Str(<<>>), Str(text)}

FieldProps ==
    [id : {Undefined, Str(<<"x">>)},
     helperText : OptionalTexts(<<"h", "e", "l", "p">>),
     errorMessage : OptionalTexts(<<"e", "r", "r", "o", "r">>),
     invalid : BOOLEAN, loading : BOOLEAN, disabled : BOOLEAN]

\* the props an InputField has when the caller passes none
DefaultFieldProps ==
    [id |-> Undefined, helperText |-> Undefined, errorMessage |-> Undefined,
     invalid |-> FALSE, loading |-> FALSE, disabled |-> FALSE]

(***************************************************************************)
(* Events                                                                  *)
(***************************************************************************)
Event(op, col, checked) == [op |-> op, col |-> col, checked |-> checked]

\* the count of consecutive clicks on one sortable header that began unsorted
clicksAfter(prevClicks, prevSort, column) ==
    IF ~Sortable(column) THEN prevClicks
    ELSE IF prevClicks.col = Key(column.key) /\ prevClicks.n \in 1..3
      THEN [col |-> Key(column.key), n |-> prevClicks.n + 1]
    ELSE IF prevSort = Unsorted THEN [col |-> Key(column.key), n |-> 1]
    ELSE [col |-> NoKey, n |-> 0]

HeaderClickWhileLoading(i) ==
    /\ sortState' = handleSort(sortState, columns[i])
    /\ clicks' = clicksAfter(clicks, sortState, columns[i])
    /\ lastEvent' = Event("sort", Key(columns[i].key), FALSE)
    /\ emitted' = <<>>
    /\ UNCHANGED <<app, field, columns, data, loading, pagination, pageSize, hasOnRowSelect,
                   selectedRows, currentPage>>

HeaderClickResettingPage(i) ==
    /\ displayMode # "Loading"
    /\ sortState' = handleSort(sortState, columns[i])
    /\ clicks' = clicksAfter(clicks, sortState, columns[i])
    /\ lastEvent' = Event("sort", Key(columns[i].key), FALSE)
    /\ emitted' = <<>>
    /\ currentPage' = 1
    /\ UNCHANGED <<app, field, columns, data, loading, pagination, pageSize, hasOnRowSelect,
                   selectedRows>>

\* onClick of a column header (rendered with the headers: Empty and Populated)
HeaderClick(i) ==
    /\ displayMode # "Loading"
    /\ sortState' = handleSort(sortState, columns[i])
    /\ clicks' = clicksAfter(clicks, sortState, columns[i])
    /\ lastEvent' = Event("sort", Key(columns[i].key), FALSE)
    /\ emitted' = <<>>
    /\ UNCHANGED <<app, field, columns, data, loading, pagination, pageSize, hasOnRowSelect,
                   selectedRows, currentPage>>

\* onChange of the checkbox of the i-th visible row
RowCheckboxChange(i) ==
    /\ displayMode = "Populated" /\ selectable
    /\ i \in 1..Len(paginatedData)
    /\ LET key == getRowKey(paginatedData[i], i - 1)
           selected == key \notin selectedRows
           newSelected == handleRowSelectSet(key, selected)
       IN  /\ selectedRows' = newSelected
           /\ emitted' = IF hasOnRowSelect
                           THEN <<handleRowSelectEmit(newSelected)>>
                           ELSE <<>>
           /\ lastEvent' = Event("row", NoKey, selected)
    /\ UNCHANGED <<app, field, columns, data, loading, pagination, pageSize, hasOnRowSelect,
                   sortState, currentPage, clicks>>

\* onChange of the header checkbox
SelectAllChange ==
    /\ displayMode = "Populated" /\ selectable
    /\ LET selected == ~isAllSelected
       IN  /\ selectedRows' = handleSelectAllSet(selected)
           /\ emitted' = IF hasOnRowSelect
                           THEN <<handleSelectAllEmit(selected)>>
                           ELSE <<>>
           /\ lastEvent' = Event("all", NoKey, selected)
    /\ UNCHANGED <<app, field, columns, data, loading, pagination, pageSize, hasOnRowSelect,
                   sortState, currentPage, clicks>>

\* disabled={currentPage === 1} and disabled={currentPage === totalPages}
previousDisabled == currentPage = 1
nextDisabled == currentPage = totalPages

\* onClick of Previous (a click on the disabled button reaches no handler)
PreviousClick ==
    /\ footerShown
    /\ currentPage' = IF previousDisabled THEN currentPage ELSE previousPage(currentPage)
    /\ lastEvent' = Event("previous", NoKey, FALSE)
    /\ emitted' = <<>>
    /\ UNCHANGED <<app, field, columns, data, loading, pagination, pageSize, hasOnRowSelect,
                   selectedRows, sortState, clicks>>

\* onClick of Next (a click on the disabled button reaches no handler)
NextClick ==
    /\ footerShown
    /\ currentPage' = IF nextDisabled THEN currentPage ELSE nextPage(currentPage, totalPages)
    /\ lastEvent' = Event("next", NoKey, FALSE)
    /\ emitted' = <<>>
    /\ UNCHANGED <<app, field, columns, data, loading, pagination, pageSize, hasOnRowSelect,
                   selectedRows, sortState, clicks>>

SetDataReconciling(rows) ==
    /\ rows # data
    /\ data' = rows
    /\ selectedRows' = selectedRows \cap KeysOf(rows)
    /\ lastEvent' = Event("data", NoKey, FALSE)
    /\ emitted' = <<>>
    /\ UNCHANGED <<app, field, columns, loading, pagination, pageSize, hasOnRowSelect,
                   sortState, currentPage, clicks>>

\* the caller renders the table again with another dataset
SetData(rows) ==
    /\ rows # data
    /\ data' = rows
    /\ lastEvent' = Event("data", NoKey, FALSE)
    /\ emitted' = <<>>
    /\ UNCHANGED <<app, field, columns, loading, pagination, pageSize, hasOnRowSelect,
                   selectedRows, sortState, currentPage, clicks>>

\* the caller renders the table again with another pageSize
SetPageSize(size) ==
    /\ size # pageSize
    /\ pageSize' = size
    /\ lastEvent' = Event("pageSize", NoKey, FALSE)
    /\ emitted' = <<>>
    /\ UNCHANGED <<app, field, columns, data, loading, pagination, hasOnRowSelect,
                   selectedRows, sortState, currentPage, clicks>>

\* the caller renders the table again with the loading flag flipped
SetLoading ==
    /\ loading' = ~loading
    /\ lastEvent' = Event("loading", NoKey, FALSE)
    /\ emitted' = <<>>
    /\ UNCHANGED <<app, field, columns, data, pagination, pageSize, hasOnRowSelect,
                   selectedRows, sortState, currentPage, clicks>>

\* the caller renders the table again with other column definitions
SetColumns(cols) ==
    /\ cols # columns
    /\ columns' = cols
    /\ lastEvent' = Event("columns", NoKey, FALSE)
    /\ emitted' = <<>>
    /\ UNCHANGED <<app, field, data, loading, pagination, pageSize, hasOnRowSelect,
                   selectedRows, sortState, currentPage, clicks>>

(***************************************************************************)
(* App (src/src/App.test.tsx): the form, the users and the two simulated   *)
(* delays of the demonstration page                                        *)
(***************************************************************************)
\* the white space String.prototype.trim and Number strip and \S excludes:
\* tab, line feed, vertical tab, form feed, carriage return, space, no-break
\* space, ogham space mark, byte order mark (the other space separators,
\* U+2000 to U+200A, U+2028, U+2029, U+202F, U+205F and U+3000, cannot be
\* written in a string of this module)
WhiteSpace == {"\t", "\n", "", "\f", "\r", " ", " ", " ", "﻿"}

\* String.prototype.trim on a sequence of characters
TrimStart(s) ==
    IF \A i \in 1..Len(s) : s[i] \in WhiteSpace THEN <<>>
    ELSE SubSeq(s, CHOOSE i \in 1..Len(s) :
                       s[i] \notin WhiteSpace /\ \A j \in 1..(i - 1) : s[j] \in WhiteSpace,
                Len(s))

TrimEnd(s) ==
    IF \A i \in 1..Len(s) : s[i] \in WhiteSpace THEN <<>>
    ELSE SubSeq(s, 1, CHOOSE i \in 1..Len(s) :
                          s[i] \notin WhiteSpace /\ \A j \in (i + 1)..Len(s) : s[j] \in WhiteSpace)

trim(s) == TrimEnd(TrimStart(s))

IsDigit(c) == \E d \in 1..10 : Digits[d] = c

RECURSIVE DigitsValue(_)
DigitsValue(s) ==
    IF s = <<>> THEN 0
    ELSE DigitsValue(SubSeq(s, 1, Len(s) - 1)) * 10
         + ((CHOOSE d \in 1..10 : Digits[d] = s[Len(s)]) - 1)

(***************************************************************************)
(* Numbers of the form. A number is NaN, an infinity, or a double; a       *)
(* double is written as the decimal 0.d1 d2 ... dn * 10^pt of the digits   *)
(* ds that Number.prototype.toString gives for it: the shortest digits     *)
(* that denote it alone among the doubles (no leading and no trailing      *)
(* zero; no digit at all for zero), with its sign; zero keeps its sign.    *)
(* Integers are sequences of decimal digits, so that no step leaves the    *)
(* 32-bit integers.                                                        *)
(***************************************************************************)
NaN == [nan |-> TRUE, inf |-> FALSE, neg |-> FALSE, ds |-> <<>>, pt |-> 0]

\* Body(value), with the value computed once
With(value, Body(_)) == CHOOSE r \in {Body(v) : v \in {value}} : TRUE

Infinity(neg) == [nan |-> FALSE, inf |-> TRUE, neg |-> neg, ds |-> <<>>, pt |-> 0]

Zero(neg) == [nan |-> FALSE, inf |-> FALSE, neg |-> neg, ds |-> <<>>, pt |-> 0]

StripLeadingZeros(ds) ==
    IF \A i \in 1..Len(ds) : ds[i] = 0 THEN <<>>
    ELSE SubSeq(ds, CHOOSE i \in 1..Len(ds) : ds[i] # 0 /\ \A j \in 1..(i - 1) : ds[j] = 0,
                Len(ds))

StripTrailingZeros(ds) ==
    IF \A i \in 1..Len(ds) : ds[i] = 0 THEN <<>>
    ELSE SubSeq(ds, 1,
                CHOOSE i \in 1..Len(ds) : ds[i] # 0 /\ \A j \in (i + 1)..Len(ds) : ds[j] = 0)

\* -1, 0, 1 as the digits x are below, equal to, above the digits y, read as
\* the fractions 0.x and 0.y
CompareDigits(x, y) ==
    LET n == IF Len(x) < Len(y) THEN Len(x) ELSE Len(y)
    IN  IF \E i \in 1..n : x[i] # y[i]
          THEN LET i == CHOOSE k \in 1..n : x[k] # y[k] /\ \A j \in 1..(k - 1) : x[j] = y[j]
               IN  IF x[i] < y[i] THEN -1 ELSE 1
        ELSE IF Len(x) < Len(y) THEN -1
        ELSE IF Len(x) > Len(y) THEN 1
        ELSE 0

\* the same for two magnitudes 0.ds * 10^pt
CompareMagnitude(ds1, pt1, ds2, pt2) ==
    IF ds1 = <<>> /\ ds2 = <<>> THEN 0
    ELSE IF ds1 = <<>> THEN -1
    ELSE IF ds2 = <<>> THEN 1
    ELSE IF pt1 < pt2 THEN -1
    ELSE IF pt1 > pt2 THEN 1
    ELSE CompareDigits(ds1, ds2)

\* the same for two integers, given by their digits
CompareNat(x, y) ==
    IF Len(x) < Len(y) THEN -1 ELSE IF Len(x) > Len(y) THEN 1 ELSE CompareDigits(x, y)

\* the digits of a natural number
RECURSIVE NatDigits(_)
NatDigits(k) == IF k = 0 THEN <<>> ELSE Append(NatDigits(k \div 10), k % 10)

\* Step applied n times to x
RECURSIVE Iterate(_, _, _)
Iterate(Step(_), x, n) ==
    With([x |-> x, n |-> n], LAMBDA a :
         IF a.n = 0 THEN a.x
         ELSE IF a.n = 1 THEN Step(a.x)
         ELSE With(Iterate(Step, a.x, a.n \div 2), LAMBDA y :
                   Iterate(Step, y, a.n - a.n \div 2)))

\* digits[from..to] * base + carry: its last to - from + 1 digits, and the
\* carry out of them
RECURSIVE MulAddRange(_, _, _, _, _)
MulAddRange(digits, base, carry, from, to) ==
    IF from > to THEN [ds |-> <<>>, carry |-> carry]
    ELSE IF from = to
      THEN With(digits[from] * base + carry, LAMBDA v :
                [ds |-> <<v % 10>>, carry |-> v \div 10])
    ELSE With((from + to) \div 2, LAMBDA mid :
         With(MulAddRange(digits, base, carry, mid + 1, to), LAMBDA right :
         With(MulAddRange(digits, base, right.carry, from, mid), LAMBDA left :
              [ds |-> left.ds \o right.ds, carry |-> left.carry])))

\* the digits of the integer digits * base + carry
MulAdd(digits, base, carry) ==
    With(digits, LAMBDA ds :
    With(MulAddRange(ds, base, carry, 1, Len(ds)), LAMBDA p :
         StripLeadingZeros(NatDigits(p.carry) \o p.ds)))

\* (rem * 10^(to - from + 1) + digits[from..to]) by d: the to - from + 1
\* digits of the quotient, and the remainder
RECURSIVE DivRemRange(_, _, _, _, _)
DivRemRange(digits, d, rem, from, to) ==
    IF from > to THEN [q |-> <<>>, r |-> rem]
    ELSE IF from = to
      THEN With(rem * 10 + digits[from], LAMBDA v : [q |-> <<v \div d>>, r |-> v % d])
    ELSE With((from + to) \div 2, LAMBDA mid :
         With(DivRemRange(digits, d, rem, from, mid), LAMBDA left :
         With(DivRemRange(digits, d, left.r, mid + 1, to), LAMBDA right :
              [q |-> left.q \o right.q, r |-> right.r])))

\* the quotient q and the remainder r of the integer digits by d
DivRem(digits, d) ==
    With(digits, LAMBDA ds :
    With(DivRemRange(ds, d, 0, 1, Len(ds)), LAMBDA p :
         [q |-> StripLeadingZeros(p.q), r |-> p.r]))

TwoTo27 == 134217728
FiveTo9 == 1953125
TwoTo52 == <<4, 5, 0, 3, 5, 9, 9, 6, 2, 7, 3, 7, 0, 4, 9, 6>>
TwoTo53 == <<9, 0, 0, 7, 1, 9, 9, 2, 5, 4, 7, 4, 0, 9, 9, 2>>

\* base^k, for k < 27 with the base 2 and k < 9 with the base 5
RECURSIVE SmallPow(_, _)
SmallPow(base, k) == IF k = 0 THEN 1 ELSE base * SmallPow(base, k - 1)

\* the digits of the integer digits * base^k, for the base 2 or 5
MulPow(digits, base, k) ==
    LET MulChunk(ds) == MulAdd(ds, IF base = 2 THEN TwoTo27 ELSE FiveTo9, 0)
    IN  With([chunk |-> IF base = 2 THEN 27 ELSE 9, k |-> k], LAMBDA a :
             MulAdd(Iterate(MulChunk, digits, a.k \div a.chunk),
                    SmallPow(base, a.k % a.chunk), 0))

\* the quotient q of the integer digits by 5^k, and whether it is inexact
DivPowFive(digits, k) ==
    LET DivFiveTo9(st) ==
            With(DivRem(st.q, FiveTo9), LAMBDA p :
                 [q |-> p.q, inexact |-> st.inexact \/ p.r # 0])
    IN  With(k, LAMBDA n :
        With(Iterate(DivFiveTo9, [q |-> digits, inexact |-> FALSE], n \div 9), LAMBDA st :
        With(DivRem(st.q, SmallPow(5, n % 9)), LAMBDA p :
             [q |-> p.q, inexact |-> st.inexact \/ p.r # 0])))

IsOdd(x) == x # <<>> /\ x[Len(x)] % 2 = 1

(***************************************************************************)
(* The double nearest to a decimal (round to nearest, ties to even).       *)
(* The value is held as x * 2^b with the bits cut off below: half is the   *)
(* first of them, sticky whether any other of them is 1.                   *)
(***************************************************************************)
\* the least exponent of a double and the greatest of a finite one, the
\* significand being an integer of at most 53 bits
LeastExponent == -1074
GreatestExponent == 971

\* x cut to 53 bits and to the least exponent. ShiftRight27 cuts 27 bits,
\* while that leaves more than 53 bits or an exponent below the least: it
\* takes 8 digits or more from x, and after it x has at most 25 digits (84
\* bits) and the exponent is less than 27 below the least. ShiftRight cuts
\* one bit, while x has more than 53 bits or the exponent is below the least.
Narrowed(st) ==
    LET TwoTo26 == 67108864
        ShiftRight27(t) ==
            IF t.x # <<>> /\ (Len(t.x) > 25 \/ t.b + 27 < LeastExponent)
              THEN With(DivRem(t.x, TwoTo27), LAMBDA p :
                        [x |-> p.q, b |-> t.b + 27, half |-> p.r >= TwoTo26,
                         sticky |-> t.sticky \/ t.half \/ p.r % TwoTo26 # 0])
              ELSE t
        ShiftRight(t) ==
            IF t.x # <<>> /\ (CompareNat(t.x, TwoTo53) >= 0 \/ t.b < LeastExponent)
              THEN [x |-> DivRem(t.x, 2).q, b |-> t.b + 1, half |-> IsOdd(t.x),
                    sticky |-> t.sticky \/ t.half]
              ELSE t
    IN  With(st, LAMBDA s :
        With(Iterate(ShiftRight27, s,
                     Len(s.x) \div 8 + Max(0, LeastExponent - s.b) \div 27 + 1), LAMBDA t :
        With(Iterate(ShiftRight, t, 32), LAMBDA u :
             IF u.b < LeastExponent
               THEN [x |-> <<>>, b |-> LeastExponent, half |-> FALSE, sticky |-> TRUE]
               ELSE u)))

\* the double m * 2^e (inf: an infinity) nearest to 0.ds * 10^pt, for digits
\* ds without leading zero: any such decimal with pt >= 310 is above every
\* double, any with pt <= -324 below half the least one. Scaled is the
\* decimal as x * 2^b: exactly when it is an integer, otherwise with 55 bits
\* or more in x (5^k < 2^(3k) and 10^k > 2^(3k)). Doubled doubles the
\* significand, while it has less than 53 bits and the exponent is above the
\* least.
ToDouble(ds, pt) ==
    LET Scaled ==
            With(pt - Len(ds), LAMBDA s :
            With(Max(0, 55 + 3 * ((-s) - Len(ds) + 1)), LAMBDA j :
                 IF s >= 0 THEN [x |-> ds \o [i \in 1..s |-> 0], b |-> 0,
                                 half |-> FALSE, sticky |-> FALSE]
                 ELSE With(DivPowFive(MulPow(ds, 2, j), -s), LAMBDA p :
                           [x |-> p.q, b |-> (-j) + s, half |-> FALSE,
                            sticky |-> p.inexact])))
        Doubled(d) ==
            IF d.m = <<>> \/ CompareNat(d.m, TwoTo52) >= 0 \/ d.e = LeastExponent THEN d
            ELSE [m |-> MulAdd(d.m, 2, 0), e |-> d.e - 1]
    IN  IF pt >= 310 THEN [inf |-> TRUE, m |-> <<>>, e |-> 0]
        ELSE IF pt <= -324 THEN [inf |-> FALSE, m |-> <<>>, e |-> 0]
        ELSE With(Narrowed(Scaled), LAMBDA st :
             With(IF st.half /\ (st.sticky \/ IsOdd(st.x)) THEN MulAdd(st.x, 1, 1) ELSE st.x,
                  LAMBDA x :
             With(IF x = TwoTo53 THEN [m |-> TwoTo52, e |-> st.b + 1]
                  ELSE Iterate(Doubled, [m |-> x, e |-> st.b], 53), LAMBDA d :
                  IF d.m = <<>> THEN [inf |-> FALSE, m |-> <<>>, e |-> 0]
                  ELSE IF d.e > GreatestExponent THEN [inf |-> TRUE, m |-> <<>>, e |-> 0]
                  ELSE [inf |-> FALSE, m |-> d.m, e |-> d.e])))

\* the decimal 0.ds * 10^pt that is m * 2^e exactly
ExactDecimal(m, e) ==
    With(e, LAMBDA n :
    With(MulPow(m, IF n >= 0 THEN 2 ELSE 5, IF n >= 0 THEN n ELSE -n), LAMBDA x :
         [ds |-> StripTrailingZeros(x), pt |-> IF n >= 0 THEN Len(x) ELSE Len(x) + n]))

\* the digits of Number.prototype.toString for the double m * 2^e: the
\* fewest digits whose nearest double it is and, of those, the nearest to it.
\* The decimals whose nearest double is m * 2^e are those between lo, half
\* way from the double below, and hi, half way to the double above (the
\* double below is half as far when m is 2^52), lo and hi themselves when m
\* is even. Candidate is the decimal of k digits among them that is nearest
\* to the decimal es of the double (the even one at a tie), ok when there is
\* one; there is one of 17 digits.
ShortestDigits(m, e) ==
    LET SubOne(ds) ==
            With(CHOOSE i \in 1..Len(ds) : ds[i] # 0 /\ \A j \in (i + 1)..Len(ds) : ds[j] = 0,
                 LAMBDA i :
                 StripLeadingZeros([j \in 1..Len(ds) |->
                                       IF j < i THEN ds[j] ELSE IF j = i THEN ds[j] - 1 ELSE 9]))
        RoundingInterval ==
            With(IF m = TwoTo52 /\ e > LeastExponent THEN 4 ELSE 2, LAMBDA f :
                 [lo |-> ExactDecimal(MulAdd(SubOne(m), f, f - 1), IF f = 4 THEN e - 2 ELSE e - 1),
                  hi |-> ExactDecimal(MulAdd(m, 2, 1), e - 1),
                  closed |-> ~IsOdd(m)])
        InInterval(ds, pt, iv) ==
            LET lo == CompareMagnitude(ds, pt, iv.lo.ds, iv.lo.pt)
                hi == CompareMagnitude(ds, pt, iv.hi.ds, iv.hi.pt)
            IN  (lo > 0 \/ (lo = 0 /\ iv.closed)) /\ (hi < 0 \/ (hi = 0 /\ iv.closed))
        Candidate(es, ept, iv, k) ==
            IF Len(es) <= k THEN [ok |-> TRUE, ds |-> es, pt |-> ept]
            ELSE With([lo |-> SubSeq(es, 1, k), hi |-> MulAdd(SubSeq(es, 1, k), 1, 1)],
                      LAMBDA c :
                 With([lo |-> StripTrailingZeros(c.lo), hi |-> StripTrailingZeros(c.hi),
                       hiPt |-> ept + (Len(c.hi) - k),
                       nearer |-> IF es[k + 1] < 5 THEN "lo"
                                  ELSE IF es[k + 1] > 5 \/ Len(es) > k + 1 THEN "hi"
                                  ELSE IF c.lo[k] % 2 = 0 THEN "lo" ELSE "hi"], LAMBDA n :
                 With([lo |-> InInterval(n.lo, ept, iv), hi |-> InInterval(n.hi, n.hiPt, iv)],
                      LAMBDA in :
                      IF in.lo /\ (~in.hi \/ n.nearer = "lo")
                        THEN [ok |-> TRUE, ds |-> n.lo, pt |-> ept]
                      ELSE IF in.hi THEN [ok |-> TRUE, ds |-> n.hi, pt |-> n.hiPt]
                      ELSE [ok |-> FALSE, ds |-> <<>>, pt |-> 0])))
    IN  With([x |-> ExactDecimal(m, e), iv |-> RoundingInterval], LAMBDA d :
        With([k \in 1..17 |-> Candidate(d.x.ds, d.x.pt, d.iv, k)], LAMBDA c :
             c[CHOOSE k \in 1..17 : c[k].ok /\ \A j \in 1..(k - 1) : ~c[j].ok]))

\* the number of sign neg and of magnitude the double nearest to
\* 0.digits * 10^point. A decimal of at most 15 digits between 10^-307 and
\* 10^308 is alone in being the nearest double of its nearest double among
\* the decimals of at most 15 digits: it is the digits of that double. No
\* double and no midpoint of two doubles has more than 800 digits: the
\* digits after them count only for being there.
Decimal(neg, digits, point) ==
    LET Significant(ds) == IF Len(ds) <= 800 THEN ds ELSE Append(SubSeq(ds, 1, 800), 1)
    IN  With([all |-> digits, led |-> StripLeadingZeros(digits)], LAMBDA g :
        With([ds |-> StripTrailingZeros(g.led), pt |-> point - (Len(g.all) - Len(g.led))],
             LAMBDA v :
            IF v.ds = <<>> THEN Zero(neg)
            ELSE IF Len(v.ds) <= 15 /\ v.pt >= -306 /\ v.pt <= 308
              THEN [nan |-> FALSE, inf |-> FALSE, neg |-> neg, ds |-> v.ds, pt |-> v.pt]
            ELSE With(ToDouble(Significant(v.ds), v.pt), LAMBDA d :
                 IF d.inf THEN Infinity(neg)
                 ELSE IF d.m = <<>> THEN Zero(neg)
                 ELSE With(ShortestDigits(d.m, d.e), LAMBDA r :
                           [nan |-> FALSE, inf |-> FALSE, neg |-> neg,
                            ds |-> r.ds, pt |-> r.pt]))))

\* a number literal of the source: an integer (one below 2^53, which is a
\* double and the digits of that double)
FromInt(k) ==
    With(NatDigits(IF k < 0 THEN -k ELSE k), LAMBDA ds :
         [nan |-> FALSE, inf |-> FALSE, neg |-> k < 0,
          ds |-> StripTrailingZeros(ds), pt |-> IF ds = <<>> THEN 0 ELSE Len(ds)])

\* x < y on numbers (false when either is NaN; -0 is not below +0)
LessValue(x, y) ==
    LET magnitude == IF x.inf /\ y.inf THEN 0
                     ELSE IF x.inf THEN 1
                     ELSE IF y.inf THEN -1
                     ELSE CompareMagnitude(x.ds, x.pt, y.ds, y.pt)
        xZero == ~x.inf /\ x.ds = <<>>
        yZero == ~y.inf /\ y.ds = <<>>
    IN  IF x.nan \/ y.nan THEN FALSE
        ELSE IF xZero /\ yZero THEN FALSE
        ELSE IF xZero THEN ~y.neg
        ELSE IF yZero THEN x.neg
        ELSE IF x.neg # y.neg THEN x.neg
        ELSE IF x.neg THEN magnitude > 0
        ELSE magnitude < 0

Less(x, y) == With(<<x, y>>, LAMBDA v : LessValue(v[1], v[2]))

HexDigits == <<"0", "1", "2", "3", "4", "5", "6", "7", "8", "9",
               "a", "b", "c", "d", "e", "f">>
UpperHexDigits == <<"0", "1", "2", "3", "4", "5", "6", "7", "8", "9",
                    "A", "B", "C", "D", "E", "F">>

\* whether c is a digit of the base (2, 8 or 16), and its value
IsRadixDigit(c, base) ==
    \E d \in 1..base : HexDigits[d] = c \/ UpperHexDigits[d] = c

RadixDigitValue(c) == (CHOOSE d \in 1..16 : HexDigits[d] = c \/ UpperHexDigits[d] = c) - 1

\* the decimal digits of the integer the digits s denote in the base
RadixDigits(s, base) ==
    LET Digit(acc) == [n |-> acc.n + 1,
                      ds |-> MulAdd(acc.ds, base, RadixDigitValue(s[acc.n + 1]))]
    IN  Iterate(Digit, [n |-> 0, ds |-> <<>>], Len(s)).ds

AllDigits(s) == \A i \in 1..Len(s) : IsDigit(s[i])

DigitValues(s) == [i \in 1..Len(s) |-> (CHOOSE d \in 1..10 : Digits[d] = s[i]) - 1]

\* the index of the first character of s that is in the set (0: none)
IndexOf(s, chars) ==
    IF \E i \in 1..Len(s) : s[i] \in chars
      THEN CHOOSE i \in 1..Len(s) : s[i] \in chars /\ \A j \in 1..(i - 1) : s[j] \notin chars
      ELSE 0

\* a string has fewer than 2^30 characters: an exponent from 2^30 + 1000 on
\* puts every literal above all doubles, or below half the least one,
\* exactly as this one does
ExponentCeiling == 1073742824

\* the value of the digits of an exponent, cut at ExponentCeiling
ExponentValue(s) ==
    With(StripLeadingZeros(DigitValues(s)), LAMBDA ds :
         IF CompareNat(ds, NatDigits(ExponentCeiling)) >= 0 THEN ExponentCeiling
         ELSE DigitsValue([i \in 1..Len(ds) |-> Digits[ds[i] + 1]]))

\* the parts of a decimal literal: the digits before and after the point, and
\* the exponent part after its e (with its sign)
DecimalParts(s) ==
    LET e == IndexOf(s, {"e", "E"})
        mantissa == IF e = 0 THEN s ELSE SubSeq(s, 1, e - 1)
        p == IndexOf(mantissa, {"."})
    IN  [int |-> IF p = 0 THEN mantissa ELSE SubSeq(mantissa, 1, p - 1),
         frac |-> IF p = 0 THEN <<>> ELSE SubSeq(mantissa, p + 1, Len(mantissa)),
         hasExponent |-> e # 0,
         exponent |-> IF e = 0 THEN <<>> ELSE SubSeq(s, e + 1, Len(s))]

\* the exponent part without its sign
Unsigned(exponent) ==
    IF exponent # <<>> /\ Head(exponent) \in {"+", "-"} THEN Tail(exponent) ELSE exponent

\* StrUnsignedDecimalLiteral without Infinity: digits with an optional point
\* (a digit on one side of it at least) and an optional exponent part
IsDecimalLiteral(s) ==
    With(DecimalParts(s), LAMBDA p :
        /\ AllDigits(p.int) /\ AllDigits(p.frac) /\ Len(p.int) + Len(p.frac) >= 1
        /\ p.hasExponent => Unsigned(p.exponent) # <<>> /\ AllDigits(Unsigned(p.exponent)))

\* the decimal a decimal literal denotes: the integer of its digits times
\* 10^scale
DecimalLiteralValue(s) ==
    With(DecimalParts(s), LAMBDA p :
        LET power == IF ~p.hasExponent THEN 0
                     ELSE (IF Head(p.exponent) = "-" THEN -1 ELSE 1)
                          * ExponentValue(Unsigned(p.exponent))
        IN  [digits |-> DigitValues(p.int \o p.frac), scale |-> power - Len(p.frac)])

InfinityLiteral == <<"I", "n", "f", "i", "n", "i", "t", "y">>

\* Number(string): white space is trimmed and the empty string is 0; then an
\* optional sign before Infinity or a decimal literal (digits, an optional
\* point, an optional exponent), or an unsigned 0x, 0o or 0b integer;
\* anything else is NaN
Number(s) ==
    With(trim(s), LAMBDA t :
    LET signed == t # <<>> /\ Head(t) \in {"-", "+"}
        neg == signed /\ Head(t) = "-"
        body == IF signed THEN Tail(t) ELSE t
        prefix == IF Len(t) >= 2 /\ t[1] = "0" THEN t[2] ELSE ""
        base == IF prefix \in {"x", "X"} THEN 16
                ELSE IF prefix \in {"o", "O"} THEN 8
                ELSE IF prefix \in {"b", "B"} THEN 2
                ELSE 0
        radixBody == SubSeq(t, 3, Len(t))
    IN  IF t = <<>> THEN Zero(FALSE)
        ELSE IF body = InfinityLiteral THEN Infinity(neg)
        ELSE With(IF IsDecimalLiteral(body) THEN "decimal"
                  ELSE IF base # 0 /\ radixBody # <<>>
                          /\ \A i \in 1..Len(radixBody) : IsRadixDigit(radixBody[i], base)
                    THEN "radix"
                  ELSE "none", LAMBDA literal :
             IF literal = "none" THEN NaN
             ELSE With(IF literal = "decimal" THEN DecimalLiteralValue(body)
                       ELSE [digits |-> RadixDigits(radixBody, base), scale |-> 0],
                       LAMBDA v :
                       Decimal(literal = "decimal" /\ neg, v.digits, Len(v.digits) + v.scale))))

isNaN(x) == x.nan

\* /\S+@\S+\.\S+/.test(s): somewhere in s a non-space, '@', one or more
\* non-spaces, '.', a non-space
EmailPattern(s) ==
    \E a, d \in 1..Len(s) :
        /\ s[a] = "@" /\ a >= 2 /\ s[a - 1] \notin WhiteSpace
        /\ s[d] = "." /\ d >= a + 2 /\ d < Len(s) /\ s[d + 1] \notin WhiteSpace
        /\ \A k \in (a + 1)..(d - 1) : s[k] \notin WhiteSpace

FormKeys == {"name", "email", "age", "department", "salary"}

\* the message validateForm records for a field ("": none)
fieldError(form, k) ==
    CASE k = "name" -> IF trim(form.name) = <<>> THEN "Name is required" ELSE ""
      [] k = "email" -> IF trim(form.email) = <<>> THEN "Email is required"
                        ELSE IF ~EmailPattern(form.email) THEN "Invalid email format"
                        ELSE ""
      [] k = "age" -> IF form.age = <<>> THEN "Age is required"
                      ELSE With(Number(form.age), LAMBDA n :
                                IF isNaN(n) \/ Less(n, FromInt(18)) \/ Less(FromInt(100), n)
                                  THEN "Age must be between 18 and 100"
                                  ELSE "")
      [] k = "department" -> IF form.department = <<>> THEN "Department is required" ELSE ""
      [] k = "salary" -> IF form.salary = <<>> THEN "Salary is required"
                         ELSE With(Number(form.salary), LAMBDA n :
                                   IF isNaN(n) \/ Less(n, FromInt(0))
                                     THEN "Salary must be a positive number"
                                     ELSE "")

\* newErrors of validateForm: a key for every field with a message
validateForm(form) ==
    With([k \in FormKeys |-> fieldError(form, k)], LAMBDA message :
         [k \in {f \in FormKeys : message[f] # ""} |-> message[k]])

\* errors.key as a condition
hasError(errors, k) == k \in DOMAIN errors /\ errors[k] # ""

\* if (errors.key) setErrors(prev => ({ ...prev, key: '' }))
clearError(errors, k) ==
    IF hasError(errors, k)
      THEN [f \in DOMAIN errors |-> IF f = k THEN "" ELSE errors[f]]
      ELSE errors

\* what the text inputs and the department select are set to
NameInputs == {<<>>, <<"a", "l">>}
EmailInputs == {<<>>, <<"a", "@", "b">>, <<"a", "@", "b", ".", "c">>}
AgeInputs == {<<>>, <<"1", "7">>, <<"3", "0">>}
DepartmentInputs == {<<>>, <<"h", "r">>}
SalaryInputs == {<<>>, <<" ">>, <<"5", "0">>}

\* disabled={loading} of the Add User button, disabled={tableLoading} of Refresh
addDisabledNever == FALSE

addDisabled == app.loading

\* loading={loading} of the four InputFields (their aria-busy) and
\* disabled={loading} of the department select
inputsBusy == app.loading

refreshDisabledNever == FALSE

refreshDisabled == app.tableLoading

InitialUserNames == << <<"a", "l">>, <<"b", "o">>, <<"c", "a">>, <<"d", "a">>, <<"e", "r">>, <<"f", "r">> >>
InitialUserDepartments == << <<"e", "n">>, <<"m", "a">>, <<"d", "e">>, <<"s", "a">>, <<"h", "r">>, <<"e", "n">> >>
InitialUserAges == <<28, 32, 24, 36, 22, 29>>
InitialUserSalaries == <<85000, 65000, 70000, 75000, 55000, 90000>>

\* the rows of initialUsers (names, e-mail addresses and departments
\* shortened; active and joinDate left out)
initialUsers ==
    [i \in 1..Len(InitialUserNames) |->
        [id |-> i,
         name |-> Str(InitialUserNames[i]),
         email |-> Str(InitialUserNames[i] \o <<"@", "c", ".", "c">>),
         age |-> FromInt(InitialUserAges[i]),
         department |-> Str(InitialUserDepartments[i]),
         salary |-> FromInt(InitialUserSalaries[i])]]

\* newUser of handleAddUser, from the values the handler closed over (active
\* and joinDate, drawn from Math.random and Date at the completion and read by
\* no handler, are left out of the rows)
newUser(closure) ==
    [id |-> closure.usersLength + 1,
     name |-> Str(closure.name),
     email |-> Str(closure.email),
     age |-> Number(closure.age),
     department |-> Str(closure.department),
     salary |-> Number(closure.salary)]


\* the useState initial values of App
AppInitState ==
    app = [name |-> <<>>, email |-> <<>>, age |-> <<>>, department |-> <<>>, salary |-> <<>>,
           errors |-> <<>>, loading |-> FALSE,
           users |-> initialUsers, tableLoading |-> FALSE,
           addTimers |-> <<>>, refreshTimers |-> 0]

\* the state after the first render
InitState ==
    /\ loading = FALSE
    /\ selectedRows = {}
    /\ sortState = Unsorted
    /\ currentPage = 1
    /\ emitted = <<>>
    /\ lastEvent = Event("mount", NoKey, FALSE)
    /\ clicks = [col |-> NoKey, n |-> 0]
    /\ field = DefaultFieldProps
    /\ AppInitState

Init ==
    /\ data = mockUsers(MaxUsers)
    /\ pagination \in BOOLEAN
    /\ pageSize = MaxPageSize
    /\ hasOnRowSelect \in BOOLEAN
    /\ columns \in {mockColumns, nonSortableColumns, stringKeyColumns}
    /\ InitState

Next ==
    \/ \E i \in 1..Len(columns) : HeaderClick(i)
    \/ \E i \in 1..MaxUsers : RowCheckboxChange(i)
    \/ SelectAllChange
    \/ PreviousClick
    \/ NextClick
    \/ \E rows \in Datasets : SetData(rows)
    \/ \E size \in 1..MaxPageSize : SetPageSize(size)
    \/ SetLoading

Spec == Init /\ [][Next]_vars

(***************************************************************************)
(* The sort as a function: every row sequence of at most MaxRows rows over *)
(* SortValues in the age field, under every sort state the header clicks   *)
(* reach.                                                                  *)
(***************************************************************************)
SortValues == {NullValue, Undefined, Num(2), Num(10), Str(<<"1", "a">>), Str(<<"b">>)}

SortRows == UNION {[1..k -> SortValues] : k \in 0..MaxRows}

SortInit ==
    /\ \E ages \in SortRows :
         data = [i \in 1..Len(ages) |-> [User(i) EXCEPT !.age = ages[i]]]
    /\ pagination = FALSE
    /\ pageSize = MaxPageSize
    /\ hasOnRowSelect = TRUE
    /\ columns \in {mockColumns, stringKeyColumns}
    /\ InitState

SortNext == \E i \in 1..Len(columns) : HeaderClick(i)

SortSpec == SortInit /\ [][SortNext]_vars

\* the same, over every dataset whose values in the age column are pairwise
\* distinct (up to one row for each of SortValues)
DistinctSortRows ==
    {ages \in UNION {[1..k -> SortValues] : k \in 0..Cardinality(SortValues)} :
        \A i, j \in 1..Len(ages) : i # j => ages[i] # ages[j]}

DistinctSortInit ==
    /\ \E ages \in DistinctSortRows :
         data = [i \in 1..Len(ages) |-> [User(i) EXCEPT !.age = ages[i]]]
    /\ pagination = FALSE
    /\ pageSize = MaxPageSize
    /\ hasOnRowSelect = TRUE
    /\ columns = mockColumns
    /\ InitState

DistinctSortSpec == DistinctSortInit /\ [][SortNext]_vars

\* the same as SortSpec, with the caller also changing the column definitions
ColumnsNext ==
    \/ SortNext
    \/ \E cols \in ColumnProps : SetColumns(cols)

ColumnsSpec == SortInit /\ [][ColumnsNext]_vars

(***************************************************************************)
(* The InputField as a function of its props: the caller renders it with   *)
(* any of FieldProps.                                                      *)
(***************************************************************************)
SetFieldProps(props) ==
    /\ props # field
    /\ field' = props
    /\ lastEvent' = Event("field", NoKey, FALSE)
    /\ emitted' = <<>>
    /\ UNCHANGED <<app, columns, data, loading, pagination, pageSize, hasOnRowSelect,
                   selectedRows, sortState, currentPage, clicks>>

InputInit ==
    /\ data = mockUsers(MaxUsers)
    /\ pagination = FALSE
    /\ pageSize = MaxPageSize
    /\ hasOnRowSelect = TRUE
    /\ columns = mockColumns
    /\ InitState

InputNext == \E props \in FieldProps : SetFieldProps(props)

InputSpec == InputInit /\ [][InputNext]_vars


(***************************************************************************)
(* App: the events of the page and its two simulated delays                *)
(***************************************************************************)
AppEvent(op) ==
    /\ lastEvent' = Event(op, NoKey, FALSE)
    /\ UNCHANGED <<columns, field, data, loading, pagination, pageSize, hasOnRowSelect,
                   selectedRows, sortState, currentPage, emitted, clicks>>

\* onChange of a text input: handleNameChange, handleEmailChange,
\* handleAgeChange, handleSalaryChange
InputChange(k, v) ==
    /\ k \in {"name", "email", "age", "salary"}
    /\ v # app[k]
    /\ app' = [app EXCEPT ![k] = v, !.errors = clearError(app.errors, k)]
    /\ AppEvent("change")

\* onChange of the department select (disabled={loading})
handleDepartmentChange(v) ==
    /\ ~app.loading
    /\ v # app.department
    /\ app' = [app EXCEPT !.department = v, !.errors = clearError(app.errors, "department")]
    /\ AppEvent("change")

\* onClick of Add User: handleAddUser up to its await
handleAddUser ==
    /\ ~addDisabled
    /\ Len(app.addTimers) < MaxPending
    /\ Len(app.users) + Len(app.addTimers) < Len(initialUsers) + MaxAdded
    /\ app' = With(validateForm(app), LAMBDA newErrors :
                   IF DOMAIN newErrors # {}
                     THEN [app EXCEPT !.errors = newErrors]
                     ELSE [app EXCEPT !.errors = newErrors,
                                      !.loading = TRUE,
                                      !.addTimers = Append(@, [name |-> app.name,
                                                               email |-> app.email,
                                                               age |-> app.age,
                                                               department |-> app.department,
                                                               salary |-> app.salary,
                                                               usersLength |-> Len(app.users)])])
    /\ AppEvent("add")

handleAddUserResumeKeepingForm ==
    /\ app.addTimers # <<>>
    /\ LET closure == Head(app.addTimers)
       IN  app' = [app EXCEPT !.users = Append(@, newUser(closure)),
                               !.errors = <<>>,
                               !.loading = FALSE,
                               !.addTimers = Tail(@)]
    /\ AppEvent("added")

\* the 1200 ms timer fires: handleAddUser after its await, with the values
\* the handler closed over at the click
handleAddUserResume ==
    /\ app.addTimers # <<>>
    /\ LET closure == Head(app.addTimers)
       IN  app' = [app EXCEPT !.users = Append(@, newUser(closure)),
                               !.name = <<>>, !.email = <<>>, !.age = <<>>,
                               !.department = <<>>, !.salary = <<>>,
                               !.errors = <<>>,
                               !.loading = FALSE,
                               !.addTimers = Tail(@)]
    /\ AppEvent("added")

\* onClick of Refresh: handleRefreshData up to its await
handleRefreshData ==
    /\ ~refreshDisabled
    /\ app.refreshTimers < MaxPending
    /\ app' = [app EXCEPT !.tableLoading = TRUE, !.refreshTimers = @ + 1]
    /\ AppEvent("refresh")

\* the 800 ms timer fires: handleRefreshData after its await
handleRefreshDataResume ==
    /\ app.refreshTimers > 0
    /\ app' = [app EXCEPT !.tableLoading = FALSE, !.refreshTimers = @ - 1]
    /\ AppEvent("refreshed")

AppInit ==
    /\ data = mockUsers(MaxUsers)
    /\ pagination = FALSE
    /\ pageSize = MaxPageSize
    /\ hasOnRowSelect = TRUE
    /\ columns = mockColumns
    /\ InitState

AppNext ==
    \/ \E v \in NameInputs : InputChange("name", v)
    \/ \E v \in EmailInputs : InputChange("email", v)
    \/ \E v \in AgeInputs : InputChange("age", v)
    \/ \E v \in SalaryInputs : InputChange("salary", v)
    \/ \E v \in DepartmentInputs : handleDepartmentChange(v)
    \/ handleAddUser
    \/ handleAddUserResume
    \/ handleRefreshData
    \/ handleRefreshDataResume

AppSpec == AppInit /\ [][AppNext]_vars

\* the timers of the page always fire
AppFairSpec ==
    AppSpec /\ WF_vars(handleAddUserResume) /\ WF_vars(handleRefreshDataResume)

(***************************************************************************)
(* Properties                                                              *)
(***************************************************************************)
\* the position of the row with this id in a row sequence
Pos(rows, id) == CHOOSE i \in 1..Len(rows) : rows[i].id = id

\* the rows of the dataset whose id is in the selection set, in dataset order
SelectedOfData == SelectSeq(data, LAMBDA r : r.id \in selectedRows)

SortClicked == lastEvent.op = "sort"
ClickedColumn == ColumnOfKey(lastEvent.col[1])

\* C1: starting unsorted, the first click on a sortable header sorts that
\* column ascending, the second descending, the third leaves no column active
\* and direction none, and the fourth gives the state of the first again.
C1_SortCycle ==
    /\ clicks.n \in {1, 4} => sortState = [column |-> clicks.col, direction |-> "asc"]
    /\ clicks.n = 2 => sortState = [column |-> clicks.col, direction |-> "desc"]
    /\ clicks.n = 3 => sortState = Unsorted

C1_Witness == clicks.n = 4 /\ sortState.direction = "asc" /\ Len(data) > 1

\* C2: a click on a header whose sortable flag is unset or false changes
\* neither the sort state nor the order of the sorted and the displayed rows.
C2_NonSortableNoOp ==
    [][(lastEvent'.op = "sort" /\ ~Sortable(ColumnOfKey(lastEvent'.col[1])))
         => (/\ sortState' = sortState
             /\ sortedDataOf(data', sortState') = sortedData
             /\ paginatedDataOf(sortedDataOf(data', sortState'), pagination',
                                currentPage', pageSize') = paginatedData)]_vars

C2_Witness ==
    /\ SortClicked /\ lastEvent.col = Key("active") /\ ~Sortable(ClickedColumn)
    /\ sortState.direction = "desc"
    /\ sortedData # data

\* C3: a click on a sortable header other than the active one, while a column
\* is active, makes the clicked column the active one, ascending; and at most
\* one header ever shows ascending or descending.
ActiveHeaders == {i \in 1..Len(columns) : ariaSort(columns[i]) \in {"ascending", "descending"}}

C3_SwitchColumn ==
    /\ [](Cardinality(ActiveHeaders) <= 1)
    /\ [][(/\ lastEvent'.op = "sort"
           /\ Sortable(ColumnOfKey(lastEvent'.col[1]))
           /\ sortState.column # NoKey
           /\ sortState.column # lastEvent'.col)
            => sortState' = [column |-> lastEvent'.col, direction |-> "asc"]]_vars

\* a sortable header was clicked while not unsorted and outside a cycle begun
\* unsorted, and the state is ascending: the click changed the column
C3_Witness ==
    /\ SortClicked /\ Sortable(ClickedColumn)
    /\ clicks.n = 0
    /\ sortState = [column |-> lastEvent.col, direction |-> "asc"]
    /\ ActiveHeaders # {}

\* C4: under an active sort, ascending or descending, two rows whose values
\* in the active column compare as equal keep their relative input order.
C4_Stable ==
    sortState.direction # Null =>
        LET dataIndex == ColumnOfKey(sortState.column[1]).dataIndex
        IN  \A i, j \in 1..Len(data) :
                (i < j /\ compareRows(data[i], data[j], dataIndex, sortState.direction) = 0)
                    => Pos(sortedData, data[i].id) < Pos(sortedData, data[j].id)

\* C5: under an active sort every row whose value in the active column is
\* null or undefined stands before every row with another value when
\* ascending, and after every such row when descending.
C5_NullsFirst ==
    sortState.direction # Null =>
        LET dataIndex == ColumnOfKey(sortState.column[1]).dataIndex
        IN  \A i, j \in 1..Len(sortedData) :
                (/\ IsNullish(Field(sortedData[i], dataIndex))
                 /\ ~IsNullish(Field(sortedData[j], dataIndex)))
                    => IF sortState.direction = "asc" THEN i < j ELSE i > j

\* C6: with pagination on, pageSize >= 1 and currentPage within 1..totalPages,
\* the visible rows are the rows of the sorted sequence at the 0-based positions
\* (currentPage-1)*pageSize up to, not including, currentPage*pageSize, cut at
\* the end of the sequence, in that order.
C6_PageSlice ==
    (pagination /\ pageSize >= 1 /\ currentPage \in 1..totalPages) =>
        LET first == (currentPage - 1) * pageSize
            count == Min(pageSize, Len(sortedData) - first)
        IN  /\ Len(paginatedData) = count
            /\ \A k \in 1..count : paginatedData[k] = sortedData[first + k]

C6_Witness ==
    /\ pagination /\ pageSize = 2 /\ currentPage = 2 /\ totalPages = 2
    /\ sortState.direction = "desc"
    /\ Len(sortedData) = 3
    /\ paginatedData = <<sortedData[3]>>

\* C7: the list a row-checkbox toggle passes to onRowSelect is the rows of
\* the dataset whose identifier is in the selection set, in dataset order,
\* whatever the sort state and the page.
C7_RowSelectEmits ==
    (lastEvent.op = "row" /\ hasOnRowSelect) => emitted = <<SelectedOfData>>

C7_Witness ==
    /\ lastEvent.op = "row" /\ hasOnRowSelect
    /\ pagination /\ currentPage = 2
    /\ sortState.direction # Null
    /\ Len(emitted[1]) >= 2
    /\ emitted[1] # FilterFrom(sortedData, selectedRows, 1)

\* C8: after handleSelectAll(true) the selection set is the identifiers of
\* the rows of the visible page, and holds the identifier of no other row.
C8_SelectAllPage ==
    (lastEvent.op = "all" /\ lastEvent.checked) =>
        /\ selectedRows = {paginatedData[i].id : i \in 1..Len(paginatedData)}
        /\ \A i \in 1..Len(sortedData) :
               (~\E k \in 1..Len(paginatedData) : paginatedData[k] = sortedData[i])
                   => sortedData[i].id \notin selectedRows

C8_Witness ==
    /\ lastEvent.op = "all" /\ lastEvent.checked
    /\ pagination /\ currentPage = 2
    /\ Len(paginatedData) >= 1 /\ Len(paginatedData) < Len(data)
    /\ Cardinality(selectedRows) = Len(paginatedData)

\* C9: the list handleSelectAll passes to onRowSelect is the rows of the
\* dataset whose identifier is in the resulting selection set, in dataset
\* order, also under an active sort.
C9_SelectAllEmitsDataOrder ==
    (lastEvent.op = "all" /\ hasOnRowSelect) => emitted = <<SelectedOfData>>

\* C10: 1 <= currentPage <= max(1, totalPages) in every reachable state.
C10_PageInRange == currentPage >= 1 /\ currentPage <= Max(1, totalPages)

\* C11: Previous sets currentPage to max(1, currentPage - 1) and Next sets it
\* to min(totalPages, currentPage + 1); Previous at page 1 and Next at the
\* last page leave currentPage, the sort state and the selection as they are.
C11_PreviousNext ==
    [][/\ lastEvent'.op = "previous" =>
            /\ currentPage' = Max(1, currentPage - 1)
            /\ currentPage = 1 =>
                   (currentPage' = currentPage /\ sortState' = sortState
                    /\ selectedRows' = selectedRows)
       /\ lastEvent'.op = "next" =>
            /\ currentPage' = Min(totalPages, currentPage + 1)
            /\ currentPage = totalPages =>
                   (currentPage' = currentPage /\ sortState' = sortState
                    /\ selectedRows' = selectedRows)]_vars

\* Next was clicked and the table stands on the last of two pages
C11_Witness ==
    /\ lastEvent.op = "next"
    /\ currentPage = totalPages /\ totalPages = 2 /\ pageSize = 1
    /\ nextDisabled
\* C12: the sort state starts with no column and no direction; in every
\* reachable state the direction is none exactly when no column is active; and
\* only a header click changes the sort state.
C12_SortStateInvariant ==
    /\ sortState = Unsorted
    /\ []((sortState.direction = Null) <=> (sortState.column = NoKey))
    /\ [](sortState.direction \in {"asc", "desc", Null})
    /\ [][sortState' # sortState => lastEvent'.op = "sort"]_vars

\* the third click on a header has cleared the column together with the direction
C12_Witness ==
    /\ lastEvent.op = "sort" /\ clicks.n = 3
    /\ sortState.column = NoKey /\ sortState.direction = Null
\* the identifiers of the rows of the visible page
PageIds == {paginatedData[i].id : i \in 1..Len(paginatedData)}

\* C13: the all-selected flag of the header checkbox is true exactly when the
\* visible page is not empty and the identifier of each of its rows is in the
\* selection set, whatever is selected on other pages.
C13_AllSelected ==
    isAllSelected <=> (Len(paginatedData) > 0 /\ PageIds \subseteq selectedRows)

\* the page is fully selected while a row of another page is not
C13_Witness ==
    /\ isAllSelected /\ displayMode = "Populated"
    /\ pagination /\ currentPage = 2
    /\ \E i \in 1..Len(data) : data[i].id \notin selectedRows

\* C14: the indeterminate flag of the header checkbox is true exactly when at
\* least one, but not every, row of the visible page has its identifier in the
\* selection set.
C14_Indeterminate ==
    isIndeterminate <=> (/\ PageIds \cap selectedRows # {}
                         /\ ~(PageIds \subseteq selectedRows))

\* one of the two rows of the page is selected
C14_Witness ==
    /\ isIndeterminate /\ displayMode = "Populated"
    /\ pagination /\ Len(paginatedData) = 2
    /\ Cardinality(PageIds \cap selectedRows) = 1
\* C15: the display mode is Loading whenever loading is set, whatever the row
\* count; Empty exactly when loading is not set and the dataset has no row;
\* Populated otherwise; and Empty renders every column header and no data row.
C15_DisplayMode ==
    /\ loadingShown <=> loading
    /\ emptyTextShown <=> (~loading /\ Len(data) = 0)
    /\ (displayMode = "Populated") <=> (~loading /\ Len(data) > 0)
    /\ ~(loadingShown /\ emptyTextShown)
    /\ emptyTextShown =>
           (/\ renderedTitles = [i \in 1..Len(columns) |-> columns[i].key]
            /\ renderedRows = <<>>)
    /\ loadingShown => renderedRows = <<>>

\* the empty table, reached with a sort still active
C15_Witness ==
    /\ emptyTextShown /\ Len(data) = 0 /\ ~loading
    /\ sortState.direction # Null
    /\ Len(renderedTitles) = Len(columns)

\* C16: a replacement of the dataset leaves the selection set as it is, also
\* the identifiers of rows that are gone, and calls onRowSelect not at all.
C16_DataChangeKeepsSelection ==
    [][lastEvent'.op = "data" => (selectedRows' = selectedRows /\ emitted' = <<>>)]_vars

\* after the replacement the selection holds an identifier no row carries
C16_Witness ==
    /\ lastEvent.op = "data"
    /\ \E id \in selectedRows : \A i \in 1..Len(data) : data[i].id # id
    /\ Len(data) > 0

\* the rows of a list, as a set
RowsOf(rows) == {rows[i] : i \in 1..Len(rows)}

\* C17: with onRowSelect supplied, a step that changes the selection set is a
\* row toggle or a select-all toggle and calls onRowSelect exactly once, with
\* the row objects of the dataset whose identifiers the new set holds.
C17_EmitOnChange ==
    [][(hasOnRowSelect /\ selectedRows' # selectedRows) =>
          /\ lastEvent'.op \in {"row", "all"}
          /\ Len(emitted') = 1
          /\ RowsOf(emitted'[1]) = {r \in RowsOf(data') : r.id \in selectedRows'}
          /\ Cardinality(RowsOf(emitted'[1])) = Len(emitted'[1])]_vars

\* select-all on the second page under a sort passed that page's rows
C17_Witness ==
    /\ lastEvent.op = "all" /\ hasOnRowSelect
    /\ Len(emitted) = 1 /\ emitted[1] # <<>>
    /\ pagination /\ currentPage = 2 /\ sortState.direction # Null
    /\ Len(emitted[1]) < Len(data)

\* C18: with direction none or no active column the sorted sequence is the
\* input sequence; so it is after the third click on a sortable header.
C18_UnsortedPassthrough ==
    /\ (sortState.direction = Null \/ sortState.column = NoKey) => sortedData = data
    /\ clicks.n = 3 => sortedData = data

\* three clicks on Age over rows that neither direction leaves in place
C18_Witness ==
    /\ clicks = [col |-> Key("age"), n |-> 3]
    /\ sortedData = data
    /\ sortedDataOf(data, [column |-> Key("age"), direction |-> "asc"]) # data
    /\ sortedDataOf(data, [column |-> Key("age"), direction |-> "desc"]) # data

\* C19: while the pagination footer is shown, it reads 'Showing X to Y of Z'
\* with X = (currentPage-1)*pageSize+1, Y = min(currentPage*pageSize, Z), Z the
\* row count, and 'Page currentPage of totalPages'; Previous is disabled
\* exactly on page 1 and Next exactly on the last page.
C19_Footer ==
    footerShown =>
        LET Z == Len(data)
        IN  /\ showingFrom = (currentPage - 1) * pageSize + 1
            /\ showingTo = (IF currentPage * pageSize <= Z THEN currentPage * pageSize ELSE Z)
            /\ showingOf = Z
            /\ pageLabel[1] = currentPage
            /\ (pageLabel[2] - 1) * pageSize < Z /\ Z <= pageLabel[2] * pageSize
            /\ previousDisabled <=> (currentPage = 1)
            /\ nextDisabled <=> (currentPage = pageLabel[2])
            /\ currentPage <= totalPages =>
                   (/\ showingTo - showingFrom + 1 = Len(renderedRows)
                    /\ renderedRows[1] = sortedData[showingFrom]
                    /\ renderedRows[Len(renderedRows)] = sortedData[showingTo])

\* the last page of three rows in pages of two: 'Showing 3 to 3 of 3', 'Page 2 of 2'
C19_Witness ==
    /\ footerShown /\ pageSize = 2 /\ currentPage = 2
    /\ showingFrom = showingTo /\ showingTo = showingOf
    /\ pageLabel = <<2, 2>>
    /\ nextDisabled /\ ~previousDisabled
\* C20: with errorMessage and helperText both given, the error text and the
\* helper text are both rendered, and aria-describedby names the id of the
\* rendered error paragraph and then the id of the rendered helper paragraph.
C20_ErrorAndHelper ==
    (Truthy(field.errorMessage) /\ Truthy(field.helperText)) =>
        /\ \E i \in 1..Len(renderedMessages) : renderedMessages[i].text = field.errorMessage
        /\ \E i \in 1..Len(renderedMessages) : renderedMessages[i].text = field.helperText
        /\ Len(ariaDescribedBy) = 2
        /\ \E i \in 1..Len(renderedMessages) :
               /\ renderedMessages[i].text = field.errorMessage
               /\ renderedMessages[i].id = Str(ariaDescribedBy[1])
        /\ \E i \in 1..Len(renderedMessages) :
               /\ renderedMessages[i].text = field.helperText
               /\ renderedMessages[i].id = Str(ariaDescribedBy[2])

\* C21: for every pair of column values the comparison used for descending
\* order is the negation of the one used for ascending order, and for rows
\* whose values in the active column are pairwise distinct the descending
\* output is the exact reverse of the ascending output.
C21_DescendingReverses ==
    /\ \A a, b \in SortValues : comparator(a, b, "desc") = -comparator(a, b, "asc")
    /\ (/\ sortState = [column |-> Key("age"), direction |-> "desc"]
        /\ \A i, j \in 1..Len(data) : i # j => data[i].age # data[j].age)
            => sortedData = Reverse(sortedDataOf(data, [column |-> Key("age"), direction |-> "asc"]))

\* C22: when the caller changes the dataset or pageSize with pagination on,
\* currentPage keeps its value; and whenever currentPage then exceeds
\* totalPages over a non-empty dataset, the visible slice is empty and the
\* Previous control is rendered and enabled.
C22_BlankPagePrevious ==
    /\ [][lastEvent'.op \in {"data", "pageSize"} => currentPage' = currentPage]_vars
    /\ []((pagination /\ ~loading /\ Len(data) > 0 /\ currentPage > totalPages)
            => (renderedRows = <<>> /\ footerShown /\ ~previousDisabled))

\* C26: under an active sort, in either direction, the comparator is
\* antisymmetric on every pair of values of the active column (null, undefined,
\* numbers, strings, mixed): compare(a, b) is negative exactly when
\* compare(b, a) is positive, and zero exactly when compare(b, a) is zero.
C26_Antisymmetric ==
    sortState.direction # Null =>
        LET dataIndex == ColumnOfKey(sortState.column[1]).dataIndex
        IN  \A i, j \in 1..Len(data) :
                LET ab == compareRows(data[i], data[j], dataIndex, sortState.direction)
                    ba == compareRows(data[j], data[i], dataIndex, sortState.direction)
                IN  /\ (ab < 0) <=> (ba > 0)
                    /\ (ab = 0) <=> (ba = 0)

\* how many times row r stands in the sequence rows
Occurrences(rows, r) == Cardinality({i \in 1..Len(rows) : rows[i] = r})

\* C27: in every sort state and for every input sequence the sorted sequence
\* is a permutation of the input rows (each row as often as in the input),
\* also when the active column key is that of no column definition.
C27_Permutation ==
    /\ Len(sortedData) = Len(data)
    /\ \A i \in 1..Len(data) :
         Occurrences(sortedData, data[i]) = Occurrences(data, data[i])

\* sorted by age, descending, when the caller drops the age column: the rows
\* are shown in input order, which is not their order by age
C27_Witness ==
    /\ lastEvent.op = "columns"
    /\ sortState = [column |-> Key("age"), direction |-> "desc"]
    /\ "age" \notin ColumnKeys
    /\ Len(data) = 3
    /\ sortedData = data
    /\ data[1].age = Num(2) /\ data[2].age = Num(10)

\* C28: a header click changes the sort state only: the selection set and
\* currentPage keep their values and onRowSelect is not called; Previous and
\* Next leave the sort state and the selection set as they are.
C28_FrameEffects ==
    [][/\ lastEvent'.op = "sort" =>
            (selectedRows' = selectedRows /\ currentPage' = currentPage /\ emitted' = <<>>)
       /\ lastEvent'.op \in {"previous", "next"} =>
            (sortState' = sortState /\ selectedRows' = selectedRows /\ emitted' = <<>>)]_vars

\* a header was clicked on page 2 with a row selected, and the sort is active
C28_Witness ==
    /\ SortClicked /\ sortState.direction # Null
    /\ currentPage = 2 /\ totalPages = 2
    /\ selectedRows # {}
    /\ hasOnRowSelect

\* the events that are user interactions with the table
UserEvents == {"sort", "row", "all", "previous", "next"}

\* C29: while loading is true no user interaction takes place and the sort
\* state, the selection set and currentPage keep their values, from the step
\* that sets loading to the step that clears it.
C29_LoadingFreezes ==
    [][(loading \/ loading') =>
          /\ sortState' = sortState
          /\ selectedRows' = selectedRows
          /\ currentPage' = currentPage
          /\ lastEvent'.op \notin UserEvents]_vars

\* loading has just returned to false, with a sort, a selection and a page
\* other than the initial ones
C29_Witness ==
    /\ lastEvent.op = "loading" /\ ~loading
    /\ sortState.direction = "desc"
    /\ selectedRows # {}
    /\ currentPage = 2

\* the simulated delays in flight: the pending timers of handleAddUser and of
\* handleRefreshData
AddsInFlight == Len(app.addTimers)
RefreshesInFlight == app.refreshTimers

\* C23 as stated: at most one simulated delayed operation, an 'add row' or a
\* 'refresh', is in flight at any time.
C23_OneInFlight == AddsInFlight + RefreshesInFlight <= 1

\* C23 as amended: at most one 'add row' and at most one 'refresh' are in
\* flight at any time, under every interleaving of clicks and completions;
\* one of each can be in flight together.
C23_OneOfEachInFlight == AddsInFlight <= 1 /\ RefreshesInFlight <= 1

\* an add and a refresh are in flight together
C23_Witness == AddsInFlight = 1 /\ RefreshesInFlight = 1 /\ app.loading /\ app.tableLoading

\* C24: every 'add row' that is started completes; while it is in flight the
\* add control is disabled and the inputs are busy; its completion appends
\* exactly one row, clears the form fields and sets loading to false; and a
\* pending delay ends in no other way than by completing.
C24_AddCompletes ==
    /\ (AddsInFlight > 0) ~> (lastEvent.op = "added" /\ ~app.loading)
    /\ [](AddsInFlight > 0 => (addDisabled /\ inputsBusy))
    /\ [][lastEvent'.op = "added" =>
            /\ Len(app'.users) = Len(app.users) + 1
            /\ SubSeq(app'.users, 1, Len(app.users)) = app.users
            /\ app'.name = <<>> /\ app'.email = <<>> /\ app'.age = <<>>
            /\ app'.department = <<>> /\ app'.salary = <<>>
            /\ ~app'.loading]_vars
    /\ [][Len(app'.addTimers) < Len(app.addTimers) => lastEvent'.op = "added"]_vars

\* an add has completed: the row named in the form at the click is the last row
C24_Witness ==
    /\ lastEvent.op = "added"
    /\ Len(app.users) = Len(initialUsers) + 1
    /\ app.users[Len(app.users)].name = Str(<<"a", "l">>)
    /\ app.name = <<>> /\ ~app.loading /\ app.addTimers = <<>>

\* a decimal numeral: one or more digits and nothing else
IsNumeral(s) == s # <<>> /\ \A i \in 1..Len(s) : IsDigit(s[i])

\* the field of the form is missing (blank) or malformed
Offending(form, k) ==
    CASE k = "name" -> trim(form.name) = <<>>
      [] k = "email" -> trim(form.email) = <<>> \/ ~EmailPattern(form.email)
      [] k = "age" -> ~IsNumeral(form.age) \/ DigitsValue(form.age) < 18 \/ DigitsValue(form.age) > 100
      [] k = "department" -> form.department = <<>>
      [] k = "salary" -> ~IsNumeral(form.salary)

\* C25: a click on Add User while a required field is missing or malformed
\* records an error message for every such field, starts no delay (loading
\* stays false) and leaves the users as they are.
C25_InvalidSubmit ==
    [][(lastEvent'.op = "add" /\ \E k \in FormKeys : Offending(app, k)) =>
          /\ \A k \in FormKeys : Offending(app, k) => hasError(app'.errors, k)
          /\ ~app'.loading
          /\ app'.addTimers = app.addTimers
          /\ app'.users = app.users]_vars

\* C30: the ids of the rows of users are pairwise distinct, after every
\* sequence of adds and refreshes.
C30_UniqueIds ==
    \A i, j \in 1..Len(app.users) : i # j => app.users[i].id # app.users[j].id

\* two rows have been added, the second while a refresh was in flight
C30_Witness ==
    /\ lastEvent.op = "added"
    /\ Len(app.users) = Len(initialUsers) + 2
    /\ app.users[Len(app.users) - 1].id = Len(initialUsers) + 1
    /\ app.users[Len(app.users)].id = Len(initialUsers) + 2
    /\ app.tableLoading

====
